---- MODULE Spec2Model ----
(***************************************************************************)
(* Model of src/bit_set.rs: the hierarchical bit set (BitSet), its atomic  *)
(* twin (AtomicBitSet), the draining iterator (Drain) and the capacity and *)
(* layout helpers.                                                         *)
(*                                                                         *)
(* A machine word (usize) that is used as a bit pattern is modelled as the *)
(* set of its one-bits, a subset of 0..BITS-1, so that all 64 bits keep    *)
(* their meaning.  Positions, indices and layer lengths are naturals.      *)
(***************************************************************************)
EXTENDS Integers, Sequences, FiniteSets, TLC

VARIABLES
    build,      \* "debug" or "release": overflow checks and debug_assert! on or off
    local,      \* the BitSet value: [layers, cap]
    atomic,     \* the AtomicBitSet value: [layers, cap]
    owner,      \* which of the two values currently owns the layers
    drain,      \* the Drain cursor borrowed from the BitSet
    last,       \* the last completed call and its outcome
    marked,     \* ghost: positions set and neither cleared nor yielded since
    fresh,      \* ghost: reserved once from empty, then only set and drain
    conv,       \* ghost: the chain of conversions since the last other call
    hist,       \* ghost: whether clear has run, and what the last clear orphaned
    halted,     \* a panic left the structure half-updated: nothing runs after
    writers,    \* concurrent AtomicBitSet::set calls in flight
    ref,        \* ghost: layers obtained by applying the writers' sets with BitSet::set
    rin,        \* argument given to round_capacity_up
    r1,         \* round_capacity_up(rin)
    r2,         \* round_capacity_up(round_capacity_up(rin))
    rstage,     \* how many times round_capacity_up has been applied
    glayer,     \* the Layer given to Layer::grow
    gnew,       \* the word count given to Layer::grow
    gout        \* what Layer::grow left: a panic, or the layer

vars == <<build, local, atomic, owner, drain, last, marked, fresh, conv, hist,
          halted, writers, ref, rin, r1, r2, rstage, glayer, gnew, gout>>

bitsetVars == <<local, atomic, owner, drain, last, marked, fresh, conv, hist,
                halted>>
concVars == <<writers, ref>>
roundVars == <<rin, r1, r2, rstage>>
growVars == <<glayer, gnew, gout>>

-----------------------------------------------------------------------------
(* Words *)

BITS == 64
BITS_SHIFT == 6

Builds == {"debug", "release"}

EmptyWord == {}
USIZE_MAX == 0 .. (BITS - 1)

SetMax(S) == CHOOSE x \in S : \A y \in S : y <= x
SetMin(S) == CHOOSE x \in S : \A y \in S : x <= y
Max2(a, b) == IF a >= b THEN a ELSE b
Min2(a, b) == IF a <= b THEN a ELSE b

leading_zeros(w) == IF w = {} THEN BITS ELSE BITS - 1 - SetMax(w)
trailing_zeros(w) == IF w = {} THEN BITS ELSE SetMin(w)

\* Unsigned comparison of two words.
ULt(a, b) ==
    LET d == (a \ b) \cup (b \ a)
    IN  d # {} /\ SetMax(d) \in b
ULeq(a, b) == a = b \/ ULt(a, b)
UMax(a, b) == IF ULt(a, b) THEN b ELSE a

\* The word of a natural below 2^31, and back.
FromNat(n) == {i \in 0 .. 30 : (n \div (2 ^ i)) % 2 = 1}

RECURSIVE ToNat(_)
ToNat(w) == IF w = {} THEN 0
            ELSE LET i == SetMin(w) IN (2 ^ i) + ToNat(w \ {i})

Ok(v) == [panic |-> FALSE, val |-> v]
Panic == [panic |-> TRUE, val |-> {}]

\* 1 << k on usize: a shift by the word width or more panics when overflow
\* checks are on and uses the shift amount modulo the width when they are off.
Shl1(k) ==
    IF k < BITS THEN Ok({k})
    ELSE IF build = "debug" THEN Panic
    ELSE Ok({k % BITS})

-----------------------------------------------------------------------------
(* Capacity and layout helpers *)

round_capacity_up(cap) ==
    IF cap = {} THEN Ok({})
    ELSE LET c == IF BITS - leading_zeros(cap) = trailing_zeros(cap) + 1
                  THEN Ok(cap)
                  ELSE IF leading_zeros(cap) = 64
                       THEN Ok(USIZE_MAX)
                       ELSE Shl1(64 - leading_zeros(cap))
         IN  IF c.panic THEN c ELSE Ok(UMax(FromNat(16), c.val))

round_bits_up(value) ==
    LET m == value % BITS
    IN  IF m = 0 THEN value ELSE value + (BITS - m)

\* The items the iterator of bit_set_layout yields once its state is cap.
RECURSIVE layout_from(_)
layout_from(cap) ==
    IF cap = 1 THEN << >>
    ELSE LET c == round_bits_up(cap) \div BITS
         IN  IF c > 0 THEN << [cap |-> c] >> \o layout_from(c) ELSE << >>

bit_set_layout(capacity) == layout_from(round_bits_up(capacity))

-----------------------------------------------------------------------------
(* Inputs of round_capacity_up *)

RoundInputs ==
    {{}} \cup {{k} : k \in 0 .. 63}
         \cup {{0, k} : k \in 1 .. 63}
         \cup {{k - 1, k} : k \in 1 .. 63}
         \cup {0 .. k : k \in 1 .. 63}

None == [none |-> TRUE]

RoundInit ==
    /\ rin \in RoundInputs
    /\ r1 = None
    /\ r2 = None
    /\ rstage = 0

RoundOnce ==
    /\ rstage = 0
    /\ r1' = round_capacity_up(rin)
    /\ rstage' = 1
    /\ UNCHANGED <<rin, r2, build, bitsetVars, concVars, growVars>>

RoundTwice ==
    /\ rstage = 1
    /\ ~r1.panic
    /\ r2' = round_capacity_up(r1.val)
    /\ rstage' = 2
    /\ UNCHANGED <<rin, r1, build, bitsetVars, concVars, growVars>>

-----------------------------------------------------------------------------
(* Layer and AtomicLayer: a buffer of cap words *)

Zeros(n) == [i \in 1 .. n |-> EmptyWord]

Layer_with_capacity(cap) == [bits |-> Zeros(cap), cap |-> cap]

Layer_as_slice(layer) == SubSeq(layer.bits, 1, layer.cap)

\* Layer::slot / Layer::slot_mut: the bound assertion.
Layer_slot_ok(layer, slot) == slot < layer.cap

\* Mutation of Layer_set: the mask is stored, not or-ed into the word.
Layer_set_overwrite(layer, slot, offset) ==
    IF Layer_slot_ok(layer, slot)
    THEN [panic |-> FALSE,
          layer |-> [layer EXCEPT !.bits[slot + 1] = {offset}]]
    ELSE [panic |-> TRUE, layer |-> layer]

Layer_set(layer, slot, offset) ==
    IF Layer_slot_ok(layer, slot)
    THEN [panic |-> FALSE,
          layer |-> [layer EXCEPT !.bits[slot + 1] = @ \cup {offset}]]
    ELSE [panic |-> TRUE, layer |-> layer]

\* Mutation of Layer_clear: the mask is not inverted, the other bits are lost.
Layer_clear_keep_only(layer, slot, offset) ==
    IF Layer_slot_ok(layer, slot)
    THEN [panic |-> FALSE,
          layer |-> [layer EXCEPT !.bits[slot + 1] = @ \cap {offset}]]
    ELSE [panic |-> TRUE, layer |-> layer]

Layer_clear(layer, slot, offset) ==
    IF Layer_slot_ok(layer, slot)
    THEN [panic |-> FALSE,
          layer |-> [layer EXCEPT !.bits[slot + 1] = @ \ {offset}]]
    ELSE [panic |-> TRUE, layer |-> layer]

Layer_test(layer, slot, offset) ==
    IF Layer_slot_ok(layer, slot)
    THEN [panic |-> FALSE, ret |-> (layer.bits[slot + 1] \cap {offset}) # {}]
    ELSE [panic |-> TRUE, ret |-> FALSE]

\* Mutation of fetch_or: a plain store of the mask.
fetch_or_store(word, mask) == mask

\* AtomicUsize::fetch_or(mask): one atomic read-modify-write of one word.
fetch_or(word, mask) == word \cup mask

\* Mutation of AtomicLayer_set: the slot number is used as the bit number.
AtomicLayer_set_slot_bit(layer, slot, offset) ==
    IF slot < layer.cap
    THEN [panic |-> FALSE,
          layer |-> [layer EXCEPT !.bits[slot + 1] = fetch_or(@, {slot % BITS})]]
    ELSE [panic |-> TRUE, layer |-> layer]

AtomicLayer_set(layer, slot, offset) ==
    IF slot < layer.cap
    THEN [panic |-> FALSE,
          layer |-> [layer EXCEPT !.bits[slot + 1] = fetch_or(@, {offset})]]
    ELSE [panic |-> TRUE, layer |-> layer]

\* What a never-written word of a fresh allocation may hold.
UninitWords == {EmptyWord, {0}}

\* Vec::reserve(additional) on a full vector of cap words: the new capacity
\* is at least cap + additional; the standard library gives the larger of
\* that, twice the old capacity and four.
VecReserve(cap, additional) ==
    {cap + additional, Max2(Max2(2 * cap, cap + additional), 4)}

\* Layer::grow: the set of layers it may leave, or a failed debug_assert!.
Layer_grow(layer, new) ==
    IF layer.cap >= new
    THEN {[panic |-> FALSE, layer |-> layer]}
    ELSE UNION {
           IF build = "debug" /\ new # c
           THEN {[panic |-> TRUE, layer |-> layer]}
           ELSE {[panic |-> FALSE,
                  layer |-> [bits |-> Layer_as_slice(layer)
                                        \o Zeros(new - layer.cap) \o tail,
                             cap |-> c]]
                 : tail \in [1 .. (c - new) -> UninitWords]}
           : c \in VecReserve(layer.cap, new - layer.cap)}

-----------------------------------------------------------------------------
(* Inputs of Layer::grow *)

\* The largest layer given to grow, the largest word count asked for, and
\* the words a layer given to grow may hold.
MaxGrowCap == 3
MaxGrowNew == 6
GrowWords == {EmptyWord, {0}, {BITS - 1}}

GrowLayers ==
    UNION {{[bits |-> b, cap |-> c] : b \in [1 .. c -> GrowWords]}
           : c \in 1 .. MaxGrowCap}

GrowIdle ==
    /\ glayer = Layer_with_capacity(1)
    /\ gnew = 0
    /\ gout = None

GrowInit ==
    /\ glayer \in GrowLayers
    /\ gnew \in 0 .. MaxGrowNew
    /\ gout = None

GrowOnce ==
    /\ gout = None
    /\ gout' \in Layer_grow(glayer, gnew)
    /\ UNCHANGED <<glayer, gnew, build, bitsetVars, concVars, roundVars>>

-----------------------------------------------------------------------------
(* BitSet and AtomicBitSet *)

BitSet_new == [layers |-> << >>, cap |-> 0]

RECURSIVE set_layers(_, _, _)
set_layers(layers, i, position) ==
    IF i > Len(layers) THEN [panic |-> FALSE, layers |-> layers]
    ELSE LET slot == position \div BITS
             offset == position % BITS
             r == Layer_set(layers[i], slot, offset)
         IN  IF r.panic THEN [panic |-> TRUE, layers |-> layers]
             ELSE set_layers([layers EXCEPT ![i] = r.layer], i + 1,
                             position \div (2 ^ BITS_SHIFT))

\* Mutation of BitSet_set: the capacity assertion is missing.
BitSet_set_unchecked(self, position) ==
    LET r == set_layers(self.layers, 1, position)
    IN  [panic |-> r.panic, self |-> [self EXCEPT !.layers = r.layers]]

\* Mutation of BitSet_set: only layer 0 is written, no summary bit.
BitSet_set_first_layer_only(self, position) ==
    IF ~(position < self.cap) THEN [panic |-> TRUE, self |-> self]
    ELSE LET r == Layer_set(self.layers[1], position \div BITS, position % BITS)
         IN  [panic |-> r.panic, self |-> [self EXCEPT !.layers[1] = r.layer]]

BitSet_set(self, position) ==
    IF ~(position < self.cap) THEN [panic |-> TRUE, self |-> self]
    ELSE LET r == set_layers(self.layers, 1, position)
         IN  [panic |-> r.panic, self |-> [self EXCEPT !.layers = r.layers]]

\* Mutation of clear_layers: the walk stops at the first layer whose word is
\* still non-zero after the bit was cleared.
RECURSIVE clear_layers_until_nonzero(_, _, _)
clear_layers_until_nonzero(layers, i, position) ==
    IF i > Len(layers) THEN [panic |-> FALSE, layers |-> layers]
    ELSE LET slot == position \div BITS
             offset == position % BITS
             r == Layer_clear(layers[i], slot, offset)
         IN  IF r.panic THEN [panic |-> TRUE, layers |-> layers]
             ELSE IF r.layer.bits[slot + 1] # EmptyWord
             THEN [panic |-> FALSE, layers |-> [layers EXCEPT ![i] = r.layer]]
             ELSE clear_layers_until_nonzero([layers EXCEPT ![i] = r.layer], i + 1,
                                             position \div (2 ^ BITS_SHIFT))

RECURSIVE clear_layers(_, _, _)
clear_layers(layers, i, position) ==
    IF i > Len(layers) THEN [panic |-> FALSE, layers |-> layers]
    ELSE LET slot == position \div BITS
             offset == position % BITS
             r == Layer_clear(layers[i], slot, offset)
         IN  IF r.panic THEN [panic |-> TRUE, layers |-> layers]
             ELSE clear_layers([layers EXCEPT ![i] = r.layer], i + 1,
                               position \div (2 ^ BITS_SHIFT))

BitSet_clear(self, position) ==
    IF ~(position < self.cap) THEN [panic |-> TRUE, self |-> self]
    ELSE LET r == clear_layers(self.layers, 1, position)
         IN  [panic |-> r.panic, self |-> [self EXCEPT !.layers = r.layers]]

BitSet_test(self, position) ==
    IF ~(position < self.cap) THEN [panic |-> TRUE, ret |-> FALSE]
    ELSE IF Len(self.layers) = 0 THEN [panic |-> TRUE, ret |-> FALSE]
    ELSE Layer_test(self.layers[1], position \div BITS, position % BITS)

BitSet_is_empty(self) ==
    IF Len(self.layers) = 0 THEN TRUE
    ELSE \A i \in 1 .. self.layers[1].cap : self.layers[1].bits[i] = EmptyWord

BitSet_capacity(self) == self.cap

BitSet_layers(self) == [i \in 1 .. Len(self.layers) |-> Layer_as_slice(self.layers[i])]

\* Mutation of atomic_set_step: the bit next to the wanted one is set.
atomic_set_step_next_bit(layers, i, position) ==
    AtomicLayer_set(layers[i], position \div BITS, (position + 1) % BITS)

\* One step of AtomicBitSet::set: the fetch_or on layer i.
atomic_set_step(layers, i, position) ==
    AtomicLayer_set(layers[i], position \div BITS, position % BITS)

RECURSIVE atomic_set_layers(_, _, _)
atomic_set_layers(layers, i, position) ==
    IF i > Len(layers) THEN [panic |-> FALSE, layers |-> layers]
    ELSE LET r == atomic_set_step(layers, i, position)
         IN  IF r.panic THEN [panic |-> TRUE, layers |-> layers]
             ELSE atomic_set_layers([layers EXCEPT ![i] = r.layer], i + 1,
                                    position \div (2 ^ BITS_SHIFT))

AtomicBitSet_set(self, position) ==
    IF ~(position < self.cap) THEN [panic |-> TRUE, self |-> self]
    ELSE LET r == atomic_set_layers(self.layers, 1, position)
         IN  [panic |-> r.panic, self |-> [self EXCEPT !.layers = r.layers]]

\* convert_vec: the same len elements, each field read at the same offset.
convert_vec(vec) ==
    [i \in 1 .. Len(vec) |-> [bits |-> vec[i].bits, cap |-> vec[i].cap]]

\* into_atomic / into_local: the new value, and what is left in the moved-from one.
BitSet_into_atomic(self) ==
    [to |-> [layers |-> convert_vec(self.layers), cap |-> self.cap],
     from |-> [layers |-> << >>, cap |-> 0]]

\* Mutation of AtomicBitSet_into_local: cap is read after it was replaced by 0.
AtomicBitSet_into_local_cap_lost(self) ==
    [to |-> [layers |-> convert_vec(self.layers), cap |-> 0],
     from |-> [layers |-> << >>, cap |-> 0]]

AtomicBitSet_into_local(self) ==
    [to |-> [layers |-> convert_vec(self.layers), cap |-> self.cap],
     from |-> [layers |-> << >>, cap |-> 0]]

\* as_atomic / as_local_mut: the same memory read through the other type.
BitSet_as_atomic(self) == [layers |-> convert_vec(self.layers), cap |-> self.cap]
AtomicBitSet_as_local(self) == [layers |-> convert_vec(self.layers), cap |-> self.cap]

-----------------------------------------------------------------------------
(* BitSet::reserve *)

\* The while-let loop of reserve over the layers that already exist.
RECURSIVE grow_layers(_, _, _)
grow_layers(layers, new, i) ==
    IF i > Len(layers) \/ i > Len(new)
    THEN {[panic |-> FALSE, layers |-> layers]}
    ELSE IF build = "debug" /\ ~(new[i].cap >= layers[i].cap)
    THEN {[panic |-> TRUE, layers |-> layers]}
    ELSE UNION {
           IF g.panic
           THEN {[panic |-> TRUE, layers |-> layers]}
           ELSE grow_layers([layers EXCEPT ![i] = g.layer], new, i + 1)
           : g \in (IF new[i].cap > 0
                    THEN Layer_grow(layers[i], new[i].cap)
                    ELSE {[panic |-> FALSE, layer |-> layers[i]]})}

\* The layers reserve appends: the layout items left after the loop.
new_layers(old_len, new) ==
    LET k == Min2(old_len, Len(new))
    IN  [i \in 1 .. (Len(new) - k) |-> Layer_with_capacity(new[k + i].cap)]

\* reserve with the rounded capacity in hand.
reserve_to(self, cap) ==
    LET new == bit_set_layout(cap)
    IN  {IF g.panic
         THEN [panic |-> TRUE, halt |-> TRUE, self |-> self]
         ELSE [panic |-> FALSE, halt |-> FALSE,
               self |-> [layers |-> g.layers \o new_layers(Len(self.layers), new),
                         cap |-> cap]]
         : g \in grow_layers(self.layers, new, 1)}

\* The largest capacity the model allocates.
MaxCap == 16384

\* BitSet::reserve(cap): the set of outcomes; cap is a word.
BitSet_reserve(self, cap) ==
    IF ULeq(cap, FromNat(self.cap))
    THEN {[panic |-> FALSE, halt |-> FALSE, self |-> self]}
    ELSE LET c == round_capacity_up(cap)
         IN  IF c.panic
             THEN {[panic |-> TRUE, halt |-> FALSE, self |-> self]}
             ELSE IF ULeq(c.val, FromNat(MaxCap))
             THEN reserve_to(self, ToNat(c.val))
             ELSE {}

-----------------------------------------------------------------------------
(* Drain *)

\* BITS << shift and x << shift, x >> shift
Shl(x, shift) == x * (2 ^ shift)
Shr(x, shift) == x \div (2 ^ shift)

\* Mutation of BitSet_drain: the cursor starts at layer 0, not at the top.
BitSet_drain_from_bottom(self) ==
    [index |-> 0, depth |-> 0, op_count |-> 0]

BitSet_drain(self) ==
    [index |-> 0,
     depth |-> IF Len(self.layers) = 0 THEN 0 ELSE Len(self.layers) - 1,
     op_count |-> 0]

\* Mutation of new_index: the highest set bit is followed, not the lowest.
new_index_highest(offset, shift, slot) ==
    (offset * Shl(BITS, shift)) + Shl(BITS - 1 - leading_zeros(slot), shift)

\* The base index of the lowest set bit of the word slot of a layer.
new_index(offset, shift, slot) ==
    (offset * Shl(BITS, shift)) + Shl(trailing_zeros(slot), shift)

\* The position Drain::next yields from layer 0.
yield_index(self_index, trail) == self_index + trail

\* Mutation of clear_upper: the walk goes on to the next layer although the
\* word still has a bit set.
RECURSIVE clear_upper_no_recheck(_, _, _, _, _)
clear_upper_no_recheck(layers, self_index, index, depth, ops) ==
    IF depth >= Len(layers)
    THEN [layers |-> layers, index |-> self_index, depth |-> Len(layers),
          op_count |-> ops, ret |-> index, none |-> FALSE,
          panic |-> FALSE, diverged |-> FALSE]
    ELSE LET shift == depth * BITS_SHIFT
             offset == self_index \div (BITS * (2 ^ shift))
             bit == (index \div (2 ^ shift)) % BITS
             layer == layers[depth + 1]
         IN  IF ~(offset < layer.cap)
             THEN [layers |-> layers, index |-> self_index, depth |-> 0,
                   op_count |-> ops + 1, ret |-> index, none |-> FALSE,
                   panic |-> TRUE, diverged |-> FALSE]
             ELSE clear_upper_no_recheck(
                      [layers EXCEPT ![depth + 1].bits[offset + 1] = @ \ {bit}],
                      self_index, index, depth + 1, ops + 1)

\* The upward walk of Drain::next after the layer 0 word became zero.
\* self_index is self.index, index the position being yielded.
RECURSIVE clear_upper(_, _, _, _, _)
clear_upper(layers, self_index, index, depth, ops) ==
    IF depth >= Len(layers)
    THEN [layers |-> layers, index |-> self_index, depth |-> Len(layers),
          op_count |-> ops, ret |-> index, none |-> FALSE,
          panic |-> FALSE, diverged |-> FALSE]
    ELSE LET shift == depth * BITS_SHIFT
             offset == self_index \div Shl(BITS, shift)
             bit == Shr(index, shift) % BITS
             layer == layers[depth + 1]
         IN  IF ~(offset < layer.cap)
             THEN [layers |-> layers, index |-> self_index, depth |-> 0,
                   op_count |-> ops + 1, ret |-> index, none |-> FALSE,
                   panic |-> TRUE, diverged |-> FALSE]
             ELSE LET slot == layer.bits[offset + 1] \ {bit}
                      layers2 == [layers EXCEPT ![depth + 1].bits[offset + 1] = slot]
                  IN  IF slot = EmptyWord
                      THEN clear_upper(layers2, self_index, index, depth + 1, ops + 1)
                      ELSE [layers |-> layers2,
                            index |-> new_index(offset, shift, slot),
                            depth |-> depth,
                            op_count |-> ops + 1, ret |-> index, none |-> FALSE,
                            panic |-> FALSE, diverged |-> FALSE]

\* The while loop of Drain::next; fuel bounds the iterations the model follows.
RECURSIVE drain_loop(_, _, _, _, _)
drain_loop(layers, index, depth, ops, fuel) ==
    IF ~(depth < Len(layers))
    THEN [layers |-> layers, index |-> index, depth |-> depth,
          op_count |-> ops, ret |-> 0, none |-> TRUE,
          panic |-> FALSE, diverged |-> FALSE]
    ELSE IF fuel = 0
    THEN [layers |-> layers, index |-> index, depth |-> depth,
          op_count |-> ops, ret |-> 0, none |-> TRUE,
          panic |-> FALSE, diverged |-> TRUE]
    ELSE LET shift == depth * BITS_SHIFT
             offset == index \div Shl(BITS, shift)
             layer == layers[depth + 1]
         IN  IF ~(offset < layer.cap)
             THEN [layers |-> layers, index |-> index, depth |-> depth,
                   op_count |-> ops + 1, ret |-> 0, none |-> TRUE,
                   panic |-> TRUE, diverged |-> FALSE]
             ELSE LET slot == layer.bits[offset + 1]
                  IN  IF slot = EmptyWord
                      THEN drain_loop(layers, index, depth + 1, ops + 1, fuel - 1)
                      ELSE IF depth > 0
                      THEN drain_loop(layers, new_index(offset, shift, slot),
                                      depth - 1, ops + 1, fuel - 1)
                      ELSE LET trail == trailing_zeros(slot)
                               idx == yield_index(index, trail)
                               slot2 == slot \ {trail}
                               layers2 == [layers EXCEPT ![1].bits[offset + 1] = slot2]
                           IN  IF slot2 # EmptyWord
                               THEN [layers |-> layers2, index |-> index,
                                     depth |-> depth, op_count |-> ops + 1,
                                     ret |-> idx, none |-> FALSE,
                                     panic |-> FALSE, diverged |-> FALSE]
                               ELSE clear_upper(layers2, index, idx, 1, ops + 1)

\* Mutation of Drain_next: every call starts again at the top layer.
Drain_next_from_top(layers, d) ==
    drain_loop(layers, 0, IF Len(layers) = 0 THEN 0 ELSE Len(layers) - 1,
               d.op_count, 4 * (Len(layers) + 1))

\* Drain::next on the cursor d over layers.
Drain_next(layers, d) ==
    drain_loop(layers, d.index, d.depth, d.op_count, 4 * (Len(layers) + 1))

-----------------------------------------------------------------------------
(* The summary relation between a layer and the layer above it *)

\* Bit number i of layer k (counting across its words), k from 1.
LayerBit(layers, k, i) ==
    /\ i \div BITS < layers[k].cap
    /\ (i % BITS) \in layers[k].bits[(i \div BITS) + 1]

\* No summary bit is missing: a non-zero word has its bit set one layer up.
NoUnderReport(layers) ==
    \A k \in 1 .. (Len(layers) - 1) :
        \A w \in 1 .. layers[k].cap :
            layers[k].bits[w] # EmptyWord => LayerBit(layers, k + 1, w - 1)

\* No summary bit is stale: a set summary bit has a non-zero word below it.
NoOverReport(layers) ==
    \A k \in 2 .. Len(layers) :
        \A w \in 1 .. layers[k].cap :
            \A b \in layers[k].bits[w] :
                LET i == ((w - 1) * BITS) + b
                IN  i < layers[k - 1].cap /\ layers[k - 1].bits[i + 1] # EmptyWord

SummaryInvariant(layers) == NoUnderReport(layers) /\ NoOverReport(layers)

-----------------------------------------------------------------------------
(* State machine of one BitSet used by one thread *)

Positions == {0, 17, 64, 8191, 8192}

ReserveInputs ==
    {FromNat(0), FromNat(1), FromNat(100), FromNat(4097), {0, 63}}

NoDrain == [active |-> FALSE, index |-> 0, depth |-> 0, op_count |-> 0,
            yielded |-> << >>, done |-> FALSE, start |-> {}, ok |-> FALSE,
            bits |-> {}, diverged |-> FALSE]

NoHist == [cleared |-> FALSE, orphans |-> {}]

NoConv == [n |-> 0, snap |-> BitSet_new]

\* A completed call: its name, whether it panicked, what it returned (for a
\* call that returns a flag or an Option) and whether the position it was
\* given tested true before it.
Call(op, panic, ret, pre) ==
    [op |-> op, panic |-> panic, ret |-> ret, pre |-> pre]

\* A writer thread: pc = 0 outside AtomicBitSet::set, pc = i before the
\* fetch_or on layer i, with pos the position shifted for that layer.
Idle == [pc |-> 0, pos |-> 0]
NWriters == 2
Writers == 1 .. NWriters

NoRef == [set |-> BitSet_new, overlapped |-> FALSE]

BitSetInit ==
    /\ local = BitSet_new
    /\ atomic = BitSet_new
    /\ owner = "local"
    /\ drain = NoDrain
    /\ last = Call("new", FALSE, FALSE, FALSE)
    /\ marked = {}
    /\ fresh = TRUE
    /\ conv = NoConv
    /\ hist = NoHist
    /\ halted = FALSE

ConcIdle ==
    /\ writers = [w \in Writers |-> Idle]
    /\ ref = NoRef

RoundIdle ==
    /\ rin = {}
    /\ r1 = None
    /\ r2 = None
    /\ rstage = 0

Init ==
    /\ build \in Builds
    /\ BitSetInit
    /\ ConcIdle
    /\ RoundIdle
    /\ GrowIdle

\* The positions whose bit is set in layer 0.
SetBits(layers) ==
    IF Len(layers) = 0 THEN {}
    ELSE UNION {{((w - 1) * BITS) + b : b \in layers[1].bits[w]}
                : w \in 1 .. layers[1].cap}

\* The positions still set in self that have a summary bit in common with p.
Orphaned(self, p) ==
    {q \in SetBits(self.layers) :
        /\ q # p
        /\ q < self.cap
        /\ \E k \in 1 .. (Len(self.layers) - 1) :
               q \div (BITS ^ k) = p \div (BITS ^ k)}

\* The BitSet is owned, not borrowed by a Drain, and usable.
LocalFree == owner = "local" /\ ~drain.active /\ ~halted

Reserve(n) ==
    /\ LocalFree
    /\ \E r \in BitSet_reserve(local, n) :
        /\ local' = r.self
        /\ halted' = r.halt
        /\ last' = Call("reserve", r.panic, FALSE, FALSE)
        /\ fresh' = IF r.self = local THEN fresh ELSE (fresh /\ local.cap = 0)
        /\ hist' = IF r.self = local THEN hist ELSE [hist EXCEPT !.orphans = {}]
    /\ conv' = NoConv
    /\ UNCHANGED <<build, atomic, owner, drain, marked, concVars, roundVars, growVars>>

Set(p) ==
    /\ LocalFree
    /\ LET r == BitSet_set(local, p)
       IN  /\ local' = r.self
           /\ last' = Call("set", r.panic, FALSE,
                           ~BitSet_test(local, p).panic /\ BitSet_test(local, p).ret)
           /\ marked' = IF r.panic THEN marked ELSE marked \cup {p}
           /\ hist' = IF r.panic THEN hist ELSE [hist EXCEPT !.orphans = {}]
    /\ conv' = NoConv
    /\ UNCHANGED <<build, atomic, owner, drain, fresh, halted, concVars, roundVars, growVars>>

Clear(p) ==
    /\ LocalFree
    /\ LET r == BitSet_clear(local, p)
       IN  /\ local' = r.self
           /\ last' = Call("clear", r.panic, FALSE,
                           ~BitSet_test(local, p).panic /\ BitSet_test(local, p).ret)
           /\ marked' = IF r.panic THEN marked ELSE marked \ {p}
           /\ fresh' = (fresh /\ r.panic)
           /\ hist' = IF r.panic THEN hist
                      ELSE [cleared |-> TRUE, orphans |-> Orphaned(r.self, p)]
    /\ conv' = NoConv
    /\ UNCHANGED <<build, atomic, owner, drain, halted, concVars, roundVars, growVars>>

Test(p) ==
    /\ LocalFree
    /\ LET r == BitSet_test(local, p)
       IN  last' = Call("test", r.panic, r.ret, r.ret)
    /\ conv' = NoConv
    /\ UNCHANGED <<build, local, atomic, owner, drain, marked, fresh, hist,
                   halted, concVars, roundVars, growVars>>

IsEmpty ==
    /\ LocalFree
    /\ last' = Call("is_empty", FALSE, BitSet_is_empty(local), FALSE)
    /\ conv' = NoConv
    /\ UNCHANGED <<build, local, atomic, owner, drain, marked, fresh, hist,
                   halted, concVars, roundVars, growVars>>

IntoAtomic ==
    /\ LocalFree
    /\ LET r == BitSet_into_atomic(local)
       IN  /\ atomic' = r.to
           /\ local' = r.from
    /\ owner' = "atomic"
    /\ last' = Call("into_atomic", FALSE, FALSE, FALSE)
    /\ conv' = IF conv.n = 1 THEN [conv EXCEPT !.n = 2]
               ELSE [n |-> 1, snap |-> local]
    /\ UNCHANGED <<build, drain, marked, fresh, hist, halted, concVars, roundVars, growVars>>

IntoLocal ==
    /\ owner = "atomic"
    /\ ~halted
    /\ LET r == AtomicBitSet_into_local(atomic)
       IN  /\ local' = r.to
           /\ atomic' = r.from
    /\ owner' = "local"
    /\ last' = Call("into_local", FALSE, FALSE, FALSE)
    /\ conv' = IF conv.n = 1 THEN [conv EXCEPT !.n = 2]
               ELSE [n |-> 1, snap |-> atomic]
    /\ UNCHANGED <<build, drain, marked, fresh, hist, halted, concVars, roundVars, growVars>>

\* atomic.set(p) on the owned AtomicBitSet, run to completion.
AtomicSet(p) ==
    /\ owner = "atomic"
    /\ ~halted
    /\ LET r == AtomicBitSet_set(atomic, p)
       IN  /\ atomic' = r.self
           /\ last' = Call("atomic_set", r.panic, FALSE,
                           ~BitSet_test(AtomicBitSet_as_local(atomic), p).panic
                             /\ BitSet_test(AtomicBitSet_as_local(atomic), p).ret)
           /\ marked' = IF r.panic THEN marked ELSE marked \cup {p}
           /\ hist' = IF r.panic THEN hist ELSE [hist EXCEPT !.orphans = {}]
    /\ conv' = NoConv
    /\ UNCHANGED <<build, local, owner, drain, fresh, halted, concVars, roundVars, growVars>>

\* set.as_atomic().set(p), run to completion.
AsAtomicSet(p) ==
    /\ LocalFree
    /\ LET r == AtomicBitSet_set(BitSet_as_atomic(local), p)
       IN  /\ local' = AtomicBitSet_as_local(r.self)
           /\ last' = Call("as_atomic_set", r.panic, FALSE,
                           ~BitSet_test(local, p).panic /\ BitSet_test(local, p).ret)
           /\ marked' = IF r.panic THEN marked ELSE marked \cup {p}
           /\ hist' = IF r.panic THEN hist ELSE [hist EXCEPT !.orphans = {}]
    /\ conv' = NoConv
    /\ UNCHANGED <<build, atomic, owner, drain, fresh, halted, concVars, roundVars, growVars>>

DrainStart ==
    /\ LocalFree
    /\ LET d == BitSet_drain(local)
       IN  drain' = [active |-> TRUE, index |-> d.index, depth |-> d.depth,
                     op_count |-> d.op_count, yielded |-> << >>, done |-> FALSE,
                     start |-> marked, ok |-> SummaryInvariant(local.layers),
                     bits |-> SetBits(local.layers), diverged |-> FALSE]
    /\ last' = Call("drain", FALSE, FALSE, FALSE)
    /\ conv' = NoConv
    /\ UNCHANGED <<build, local, atomic, owner, marked, fresh, hist, halted,
                   concVars, roundVars, growVars>>

DrainNext ==
    /\ owner = "local"
    /\ drain.active
    /\ ~halted
    /\ LET r == Drain_next(local.layers, drain)
       IN  /\ local' = [local EXCEPT !.layers = r.layers]
           /\ drain' = [drain EXCEPT
                          !.index = r.index, !.depth = r.depth,
                          !.op_count = r.op_count,
                          !.yielded = IF r.none THEN @ ELSE Append(@, r.ret),
                          !.done = (@ \/ (r.none /\ ~r.panic /\ ~r.diverged)),
                          !.diverged = r.diverged]
           /\ last' = Call("next", r.panic \/ r.diverged, ~r.none, FALSE)
           /\ marked' = IF r.none THEN marked ELSE marked \ {r.ret}
           /\ halted' = (r.panic \/ r.diverged)
    /\ UNCHANGED <<build, atomic, owner, fresh, conv, hist, concVars, roundVars, growVars>>

DrainDrop ==
    /\ owner = "local"
    /\ drain.active
    /\ ~halted
    /\ drain' = NoDrain
    /\ last' = Call("drop", FALSE, FALSE, FALSE)
    /\ hist' = [hist EXCEPT !.orphans = {}]
    /\ UNCHANGED <<build, local, atomic, owner, marked, fresh, conv, halted,
                   concVars, roundVars, growVars>>

Next ==
    \/ \E n \in ReserveInputs : Reserve(n)
    \/ \E p \in Positions : Set(p)
    \/ \E p \in Positions : Clear(p)
    \/ \E p \in Positions : Test(p)
    \/ IsEmpty
    \/ IntoAtomic
    \/ IntoLocal
    \/ \E p \in Positions : AtomicSet(p)
    \/ \E p \in Positions : AsAtomicSet(p)
    \/ DrainStart
    \/ DrainNext
    \/ DrainDrop

Spec == Init /\ [][Next]_vars

-----------------------------------------------------------------------------
(* round_capacity_up applied to chosen inputs *)

InitRound ==
    /\ build \in Builds
    /\ BitSetInit
    /\ ConcIdle
    /\ RoundInit
    /\ GrowIdle

NextRound ==
    \/ RoundOnce
    \/ RoundTwice

SpecRound == InitRound /\ [][NextRound]_vars

-----------------------------------------------------------------------------
(* Helpers of the properties *)

Live == IF owner = "local" THEN local ELSE atomic

AllZero(layers) ==
    \A k \in 1 .. Len(layers) :
        \A w \in 1 .. layers[k].cap : layers[k].bits[w] = EmptyWord

\* The elements of a finite set of naturals in ascending order.
RECURSIVE Ascending(_)
Ascending(S) ==
    IF S = {} THEN << >>
    ELSE LET m == SetMin(S) IN << m >> \o Ascending(S \ {m})

TestsTrue(self, p) == BitSet_test(self, p) = [panic |-> FALSE, ret |-> TRUE]
TestsFalse(self, p) == BitSet_test(self, p) = [panic |-> FALSE, ret |-> FALSE]

-----------------------------------------------------------------------------
(* C1: for a hierarchy reserved once from empty and then populated only by  *)
(* set calls, a drain run until next returns None has yielded exactly the  *)
(* set positions, each once, in strictly ascending order; afterwards       *)
(* is_empty() is true and test(p) is false for every position that was set *)
C1_DrainYieldsSetPositionsAscending ==
    (drain.active /\ drain.done /\ fresh) =>
        /\ drain.yielded = Ascending(drain.start)
        /\ BitSet_is_empty(local)
        /\ \A p \in drain.start : TestsFalse(local, p)

C1_Witness ==
    /\ drain.active /\ drain.done /\ fresh
    /\ Len(local.layers) = 3
    /\ drain.start = {0, 17, 64, 8191}
    /\ drain.yielded = << 0, 17, 64, 8191 >>

-----------------------------------------------------------------------------
(* C2: once a Drain cursor is exhausted (next has returned None), every     *)
(* word of every layer of the hierarchy is zero                             *)
C2_ExhaustedDrainLeavesAllZero ==
    (drain.active /\ drain.done) => AllZero(local.layers)

-----------------------------------------------------------------------------
(* C3: for p < capacity, test(p) is true immediately after set(p) and false *)
(* immediately after clear(p), whether or not p was set before the clear    *)
C3_SetClearTest ==
    [][\A p \in Positions :
          /\ (p < local.cap /\ last'.op = "set" /\ Set(p))
                => TestsTrue(local', p)
          /\ (p < local.cap /\ last'.op = "clear" /\ Clear(p))
                => TestsFalse(local', p)]_vars

\* A clear of a position that was set has just completed, next to a set one.
C3_Witness ==
    /\ last = Call("clear", FALSE, FALSE, TRUE)
    /\ TestsFalse(local, 0)
    /\ TestsTrue(local, 17)
    /\ 0 \notin marked

-----------------------------------------------------------------------------
(* C4: reserve(n) with n <= capacity changes nothing; reserve(n) with       *)
(* n > capacity sets the capacity to round_capacity_up(n) and leaves        *)
(* test(p) as it was for every p below the old capacity                     *)
C4_ReserveFrame ==
    [][\A n \in ReserveInputs :
          (last'.op = "reserve" /\ Reserve(n)) =>
              IF ULeq(n, FromNat(local.cap))
              THEN local' = local
              ELSE /\ round_capacity_up(n) = Ok(FromNat(local'.cap))
                   /\ \A p \in Positions :
                          p < local.cap =>
                              BitSet_test(local', p) = BitSet_test(local, p)]_vars

-----------------------------------------------------------------------------
(* C5: the capacity is always 0 or a power of two that is at least 16, and  *)
(* no operation decreases it                                                *)
IsPow2(c) == \E k \in 0 .. 30 : c = 2 ^ k

C5_CapacityShapeAndGrowth ==
    [][/\ (Live'.cap = 0 \/ (IsPow2(Live'.cap) /\ Live'.cap >= 16))
       /\ Live'.cap >= Live.cap]_vars

-----------------------------------------------------------------------------
(* C6: round_capacity_up(0) = 0; for every other word n the result is the   *)
(* smallest power of two that is >= max(n, 16); applying the function to    *)
(* its own result gives the same result                                     *)
IsLeastPow2AtLeast(r, m) ==
    /\ Cardinality(r) = 1
    /\ ULeq(m, r)
    /\ \A k \in 0 .. (BITS - 1) : ULeq(m, {k}) => ULeq(r, {k})

C6_RoundCapacityUp ==
    /\ rstage >= 1 =>
          /\ ~r1.panic
          /\ IF rin = {} THEN r1.val = {}
             ELSE IsLeastPow2AtLeast(r1.val, UMax(rin, FromNat(16)))
    /\ rstage = 2 => r2 = r1

-----------------------------------------------------------------------------
(* C7: set, clear and test on the BitSet and set on the AtomicBitSet with a *)
(* position >= capacity panic and leave the capacity and every word of      *)
(* every layer as they were                                                 *)
C7_OutOfBoundsPanics ==
    [][\A p \in Positions :
          (/\ p >= Live.cap
           /\ last'.op \in {"set", "clear", "test", "atomic_set", "as_atomic_set"}
           /\ (Set(p) \/ Clear(p) \/ Test(p) \/ AtomicSet(p) \/ AsAtomicSet(p)))
          => (last'.panic /\ local' = local /\ atomic' = atomic)]_vars

\* A set beyond the capacity has just panicked on a non-empty hierarchy whose
\* first layer has room for more bits than the capacity.
C7_Witness ==
    /\ last = Call("set", TRUE, FALSE, FALSE)
    /\ local.cap = 16
    /\ TestsTrue(local, 0)
    /\ BitSet_test(local, 17).panic

-----------------------------------------------------------------------------
-----------------------------------------------------------------------------
(* Several threads calling set on one shared AtomicBitSet *)

AllIdle == \A w \in Writers : writers[w].pc = 0

InitConc ==
    /\ build \in Builds
    /\ local = BitSet_new
    /\ \E n \in ReserveInputs :
          \E r \in BitSet_reserve(BitSet_new, n) :
              /\ ~r.panic
              /\ atomic = BitSet_into_atomic(r.self).to
              /\ ref = [set |-> r.self, overlapped |-> FALSE]
    /\ owner = "atomic"
    /\ drain = NoDrain
    /\ last = Call("into_atomic", FALSE, FALSE, FALSE)
    /\ marked = {}
    /\ fresh = TRUE
    /\ conv = NoConv
    /\ hist = NoHist
    /\ halted = FALSE
    /\ writers = [w \in Writers |-> Idle]
    /\ RoundIdle
    /\ GrowIdle

\* Writer w enters AtomicBitSet::set(p): the capacity assertion.
ConcSetCall(w, p) ==
    /\ owner = "atomic"
    /\ ~halted
    /\ writers[w].pc = 0
    /\ IF p < atomic.cap /\ Len(atomic.layers) > 0
       THEN /\ writers' = [writers EXCEPT ![w] = [pc |-> 1, pos |-> p]]
            /\ ref' = [ref EXCEPT !.set = BitSet_set(@, p).self]
            /\ marked' = marked \cup {p}
            /\ UNCHANGED last
       ELSE /\ last' = Call("atomic_set", ~(p < atomic.cap), FALSE, FALSE)
            /\ UNCHANGED <<writers, ref, marked>>
    /\ UNCHANGED <<build, local, atomic, owner, drain, fresh, conv, hist, halted,
                   roundVars, growVars>>

\* Writer w performs the fetch_or of one layer and moves to the next layer,
\* or returns after the last one.
ConcSetStep(w) ==
    /\ owner = "atomic"
    /\ ~halted
    /\ writers[w].pc > 0
    /\ LET i == writers[w].pc
           r == atomic_set_step(atomic.layers, i, writers[w].pos)
       IN  /\ atomic' = [atomic EXCEPT !.layers[i] = r.layer]
           /\ writers' = [writers EXCEPT ![w] =
                            IF r.panic \/ i = Len(atomic.layers)
                            THEN Idle
                            ELSE [pc |-> i + 1,
                                  pos |-> writers[w].pos \div (2 ^ BITS_SHIFT)]]
           /\ last' = IF r.panic \/ i = Len(atomic.layers)
                      THEN Call("atomic_set", r.panic, FALSE, FALSE)
                      ELSE last
    /\ ref' = [ref EXCEPT !.overlapped =
                 @ \/ \E v \in Writers : v # w /\ writers[v].pc > 0]
    /\ UNCHANGED <<build, local, owner, drain, marked, fresh, conv, hist, halted,
                   roundVars, growVars>>

NextConc ==
    \/ \E w \in Writers : \E p \in Positions : ConcSetCall(w, p)
    \/ \E w \in Writers : ConcSetStep(w)

SpecConc == InitConc /\ [][NextConc]_vars

-----------------------------------------------------------------------------
(* C9: when every concurrent AtomicBitSet::set call has returned, whatever  *)
(* the interleaving of their per-layer fetch_or steps, every layer holds    *)
(* the words the same sets give when applied one after another with         *)
(* BitSet::set; every marked position tests true and the summary relation   *)
(* holds                                                                    *)
C9_ConcurrentSetsLoseNothing ==
    AllIdle =>
        /\ AtomicBitSet_into_local(atomic).to = ref.set
        /\ \A p \in marked : TestsTrue(AtomicBitSet_into_local(atomic).to, p)
        /\ SummaryInvariant(atomic.layers)

\* All calls have returned after steps of different calls were interleaved.
C9_Witness ==
    /\ AllIdle
    /\ ref.overlapped
    /\ Len(atomic.layers) = 3
    /\ marked = {0, 17, 64, 8191}

-----------------------------------------------------------------------------
(* C10: a completed AtomicBitSet::set(p), on the converted set or through   *)
(* as_atomic, changes every word of every layer exactly as BitSet::set(p)   *)
(* does from the same state, and test(p) is true on the BitSet afterwards   *)
C10_SharedSetEqualsLocalSet ==
    [][\A p \in Positions :
          /\ (last'.op = "atomic_set" /\ ~last'.panic /\ AtomicSet(p)) =>
                /\ AtomicBitSet_into_local(atomic').to
                     = BitSet_set(AtomicBitSet_into_local(atomic).to, p).self
                /\ TestsTrue(AtomicBitSet_into_local(atomic').to, p)
          /\ (last'.op = "as_atomic_set" /\ ~last'.panic /\ AsAtomicSet(p)) =>
                /\ local' = BitSet_set(local, p).self
                /\ TestsTrue(local', p)]_vars

\* A set through as_atomic of a position that was not set has completed on a
\* hierarchy of three layers.
C10_Witness ==
    /\ last = Call("as_atomic_set", FALSE, FALSE, FALSE)
    /\ Len(local.layers) = 3
    /\ TestsTrue(local, 8191)
    /\ TestsTrue(local, 0)

-----------------------------------------------------------------------------
(* C11: for a hierarchy of fixed capacity populated only by set calls,      *)
(* every layer holds exactly the expected bits: bit (p mod BITS) of word    *)
(* (p div BITS) of layer 0 is set iff p was set, and for k > 0 bit b of     *)
(* word w of layer k is set iff word w*BITS+b of layer k-1 is non-zero.     *)
(* Checked for every hierarchy reserved once from empty and then changed    *)
(* only by set calls and by drains, with the positions a drain yielded      *)
(* counted as no longer set                                                 *)
ExpectedBits(layers, k, w, S) ==
    IF k = 1
    THEN {p % BITS : p \in {q \in S : q \div BITS = w - 1}}
    ELSE {b \in 0 .. (BITS - 1) :
            /\ ((w - 1) * BITS) + b < layers[k - 1].cap
            /\ layers[k - 1].bits[((w - 1) * BITS) + b + 1] # EmptyWord}

ExactLayers(layers, S) ==
    /\ S # {} => Len(layers) > 0
    /\ \A k \in 1 .. Len(layers) :
           \A w \in 1 .. layers[k].cap :
               layers[k].bits[w] = ExpectedBits(layers, k, w, S)

C11_LayersHoldExactlyTheSetBits ==
    fresh => ExactLayers(Live.layers, marked)

\* Capacity 128 after set(0), set(17), set(64): layer 0 = [2^17 + 1, 1] and
\* layer 1 = [0b11].
C11_Witness ==
    /\ fresh
    /\ ~drain.active
    /\ local.cap = 128
    /\ marked = {0, 17, 64}
    /\ BitSet_layers(local) = << << {0, 17}, {0} >>, << {0, 1} >> >>

-----------------------------------------------------------------------------
(* C12: the summary invariant (each summary bit of layer k > 0 equals the   *)
(* OR of the bits of the layer k-1 word it covers) holds in every state     *)
(* reached by completed reserve, set and Drain next calls without clear,    *)
(* also after a reserve that grows a non-empty hierarchy                    *)
C12_SummaryInvariantWithoutClear ==
    (~hist.cleared /\ ~halted) => SummaryInvariant(Live.layers)

-----------------------------------------------------------------------------
(* C13: after set and reserve calls only (no clear), a drain run until next *)
(* returns None has yielded every position for which test was true when     *)
(* the drain started, in strictly ascending order                           *)
Range(seq) == {seq[i] : i \in 1 .. Len(seq)}

StrictlyAscending(seq) ==
    \A i \in 1 .. (Len(seq) - 1) : seq[i] < seq[i + 1]

C13_DrainAfterReserveYieldsAll ==
    (drain.active /\ drain.done /\ ~hist.cleared) =>
        /\ \A p \in drain.bits : p < local.cap => p \in Range(drain.yielded)
        /\ StrictlyAscending(drain.yielded)

-----------------------------------------------------------------------------
(* C14: if the summary invariant holds when drain() is called, then every   *)
(* call of next returns with the invariant holding again, the yielded       *)
(* position no longer testing true and every other position that tested     *)
(* true still testing true; a drain run to the end from such a state, also  *)
(* after an earlier Drain was dropped part-way, yields exactly the positions *)
(* that were set when it started                                            *)
C14_DrainStepKeepsInvariant ==
    /\ []((drain.active /\ drain.ok /\ drain.done) =>
              drain.yielded = Ascending(drain.bits))
    /\ [][(drain.ok /\ last'.op = "next" /\ DrainNext) =>
             /\ ~last'.panic
             /\ SummaryInvariant(local'.layers)
             /\ SetBits(local'.layers)
                  = SetBits(local.layers) \ (Range(drain'.yielded) \ Range(drain.yielded))
             /\ \A p \in Range(drain'.yielded) \ Range(drain.yielded) :
                    /\ p \in SetBits(local.layers)
                    /\ ~TestsTrue(local', p)
             /\ \A p \in SetBits(local'.layers) :
                    TestsTrue(local, p) => TestsTrue(local', p)]_vars

\* A drain of a consistent hierarchy of three layers has yielded its first
\* position and the others are still set.
C14_Witness ==
    /\ drain.active /\ drain.ok /\ ~drain.done
    /\ last = Call("next", FALSE, TRUE, FALSE)
    /\ Len(local.layers) = 3
    /\ drain.yielded = << 0 >>
    /\ TestsFalse(local, 0)
    /\ TestsTrue(local, 17) /\ TestsTrue(local, 64) /\ TestsTrue(local, 8191)

-----------------------------------------------------------------------------
(* C15: in a hierarchy with at least two layers, clear(p) zeroes the        *)
(* summary bits of p although another set position q has one of them in     *)
(* common and stays set (test(q) true); the drain started next runs to the  *)
(* end without yielding q, and afterwards q still tests true and            *)
(* is_empty() is false                                                      *)
C15_ClearOrphansSiblings ==
    /\ [][\A p \in Positions :
             (last'.op = "clear" /\ ~last'.panic /\ Clear(p)) =>
                 \A q \in Positions \ {p} :
                     (/\ TestsTrue(local, q)
                      /\ \E k \in 1 .. (Len(local.layers) - 1) :
                             q \div (BITS ^ k) = p \div (BITS ^ k))
                     => /\ q \in hist'.orphans
                        /\ TestsTrue(local', q)
                        /\ \A k \in 2 .. Len(local.layers) :
                               ~LayerBit(local'.layers, k, p \div (BITS ^ (k - 1)))]_vars
    /\ [](\A q \in hist.orphans :
              /\ drain.active => (~drain.diverged /\ ~halted)
              /\ (drain.active /\ drain.done) =>
                     /\ q \notin Range(drain.yielded)
                     /\ TestsTrue(local, q)
                     /\ ~BitSet_is_empty(local))

\* set(0), set(17), clear(0), then a drain run to the end: nothing was yielded
\* and 17 is still set.
C15_Witness ==
    /\ drain.active /\ drain.done
    /\ hist.orphans = {17}
    /\ Len(local.layers) >= 2
    /\ drain.yielded = << >>
    /\ TestsTrue(local, 17)
    /\ TestsFalse(local, 0)
    /\ ~BitSet_is_empty(local)

-----------------------------------------------------------------------------
(* C16: once a call of next has left depth equal to the number of layers,   *)
(* or has returned None, every later call of next returns None and changes  *)
(* neither the cursor nor any layer word; the drain of a hierarchy without  *)
(* layers returns None on the first call                                    *)
C16_DrainIsFused ==
    /\ [][(/\ last'.op = "next"
           /\ DrainNext
           /\ (drain.depth >= Len(local.layers) \/ drain.done))
          => /\ ~last'.panic
             /\ ~last'.ret
             /\ local' = local
             /\ drain'.index = drain.index
             /\ drain'.depth = drain.depth
             /\ drain'.op_count = drain.op_count
             /\ drain'.yielded = drain.yielded]_vars
    /\ []((drain.active /\ Len(local.layers) = 0) => drain.depth >= Len(local.layers))
    /\ []((drain.active /\ drain.done) => drain.depth >= Len(local.layers))

\* next has returned None after the call that yielded the last position had
\* left depth at the number of layers.
C16_Witness ==
    /\ drain.active /\ drain.done
    /\ last = Call("next", FALSE, FALSE, FALSE)
    /\ Len(local.layers) = 3
    /\ drain.depth = 3
    /\ drain.yielded = << 0, 8191 >>
    /\ drain.index # 0

-----------------------------------------------------------------------------
(* One BitSet grown step by step up to four words in layer 1 *)

DeepPositions == {0, 8192, 8256}

DeepReserveInputs == {FromNat(4096), FromNat(8192), FromNat(16384)}

NextDeep ==
    \/ \E n \in DeepReserveInputs : Reserve(n)
    \/ \E p \in DeepPositions : Set(p)
    \/ \E p \in DeepPositions : Clear(p)
    \/ DrainStart
    \/ DrainNext
    \/ DrainDrop

SpecDeep == Init /\ [][NextDeep]_vars

-----------------------------------------------------------------------------
(* C17: from every state reached by reserve, set, clear and drains, each    *)
(* call of next returns after finitely many iterations of its loop (it      *)
(* never cycles between descending into a layer and ascending out of it),   *)
(* and a drain yields at most as many positions as were set when it started *)
C17_DrainTerminates ==
    drain.active =>
        /\ ~drain.diverged
        /\ Len(drain.yielded) <= Cardinality(drain.bits)

-----------------------------------------------------------------------------
(* C18: in every state reached by completed reserve, set, clear and Drain   *)
(* next calls on the BitSet, a set summary bit (w, b) of layer k > 0 has a  *)
(* non-zero word number w*BITS+b below it in layer k-1                      *)
C18_SummaryNeverOverReports ==
    (owner = "local" /\ ~halted) => NoOverReport(local.layers)

-----------------------------------------------------------------------------
(* C19: AtomicBitSet::set updates the layers one atomic step at a time from *)
(* finest to coarsest; in every state of every interleaving of concurrent   *)
(* sets that start from a consistent hierarchy a set summary bit has a      *)
(* non-zero word below it, every layer 0 bit belongs to a position given to *)
(* set, and a non-zero word whose summary bit is not set belongs to a call  *)
(* in flight that has written the finer layer and not yet the coarser one   *)
C19_ConcurrentIntermediateStates ==
    /\ NoOverReport(atomic.layers)
    /\ SetBits(atomic.layers) \subseteq marked
    /\ \A k \in 1 .. (Len(atomic.layers) - 1) :
           \A w \in 1 .. atomic.layers[k].cap :
               (/\ atomic.layers[k].bits[w] # EmptyWord
                /\ ~LayerBit(atomic.layers, k + 1, w - 1))
               => \E v \in Writers :
                      /\ writers[v].pc = k + 1
                      /\ writers[v].pos = w - 1

\* One call has written layer 0 and not yet layer 1 while another call is in
\* flight as well.
C19_Witness ==
    /\ Len(atomic.layers) = 3
    /\ writers[1] = [pc |-> 2, pos |-> 1]
    /\ writers[2].pc > 0
    /\ 0 \in atomic.layers[1].bits[2]
    /\ ~LayerBit(atomic.layers, 2, 1)
    /\ ~NoUnderReport(atomic.layers)

-----------------------------------------------------------------------------
(* C20: after any sequence of reserve calls layer k has exactly             *)
(* ceil(capacity / BITS^(k+1)) words, there is no layer when the capacity   *)
(* is 0, otherwise the topmost layer is the first one with exactly one      *)
(* word; hence every position below the capacity indexes a word inside      *)
(* every layer                                                              *)
CeilDiv(a, b) == (a + b - 1) \div b

LayoutMatches(self) ==
    /\ self.cap = 0 => Len(self.layers) = 0
    /\ \A k \in 1 .. Len(self.layers) :
           self.layers[k].cap = CeilDiv(self.cap, BITS ^ k)
    /\ self.cap > 0 =>
           /\ Len(self.layers) > 0
           /\ self.layers[Len(self.layers)].cap = 1
           /\ \A k \in 1 .. (Len(self.layers) - 1) : self.layers[k].cap > 1
    /\ \A p \in Positions \cup DeepPositions :
           p < self.cap =>
               \A k \in 1 .. Len(self.layers) :
                   Layer_slot_ok(self.layers[k], p \div (BITS ^ k))

C20_LayersMatchLayout ==
    ~halted => LayoutMatches(Live)

-----------------------------------------------------------------------------
(* C21: set(p) and clear(p) change the membership of p only: test(q) gives  *)
(* the same for every q # p below the capacity before and after, and the    *)
(* capacity, the number of layers and the length of every layer stay the    *)
(* same; test and is_empty change nothing of the hierarchy, capacity() and  *)
(* layers() are reads of it                                                 *)
\* The slice layers() gives for layer k has layers[k].cap words.
SameShape(a, b) ==
    /\ BitSet_capacity(a) = BitSet_capacity(b)
    /\ Len(a.layers) = Len(b.layers)
    /\ \A k \in 1 .. Len(a.layers) : a.layers[k].cap = b.layers[k].cap

\* The words of layer 0 with the bit of position p left out.
OtherBits(self, p) ==
    IF Len(self.layers) = 0 \/ ~Layer_slot_ok(self.layers[1], p \div BITS)
    THEN << >>
    ELSE [self.layers[1].bits EXCEPT ![(p \div BITS) + 1] = @ \ {p % BITS}]

C21_SetClearFrame ==
    [][/\ \A p \in Positions :
            (/\ local' # local
             /\ \/ (last'.op = "set" /\ Set(p))
                \/ (last'.op = "clear" /\ Clear(p))) =>
                /\ SameShape(local', local)
                /\ OtherBits(local', p) = OtherBits(local, p)
                /\ \A q \in Positions \ {p} :
                       q < local.cap =>
                           BitSet_test(local', q) = BitSet_test(local, q)
       /\ (/\ last'.op \in {"test", "is_empty"}
           /\ (local' # local \/ atomic' # atomic \/ drain' # drain))
          => ~((\E p \in Positions : Test(p)) \/ IsEmpty)]_vars

\* set(64) has just completed on a hierarchy of three layers where other
\* positions, one of them in a word that shares its summary word, are set.
C21_Witness ==
    /\ last = Call("set", FALSE, FALSE, FALSE)
    /\ Len(local.layers) = 3
    /\ marked = {0, 17, 64, 8191}
    /\ \A q \in marked : TestsTrue(local, q)

-----------------------------------------------------------------------------
(* C22: counting one step per word examined (op_count, incremented in the   *)
(* main loop of next and in its upward clearing walk), a drain run to the   *)
(* end over k >= 1 set positions in a consistent hierarchy of L layers      *)
(* takes at most k * (2L - 1) steps, whatever the capacity                  *)
C22_DrainWorkBound ==
    (drain.active /\ drain.ok /\ drain.done /\ drain.bits # {}) =>
        drain.op_count
            <= Cardinality(drain.bits) * ((2 * Len(local.layers)) - 1)

\* {64} at capacity 128 takes 3 steps, the bound for one position and two
\* layers.
C22_Witness ==
    /\ drain.active /\ drain.ok /\ drain.done
    /\ local.cap = 128
    /\ Len(local.layers) = 2
    /\ drain.bits = {64}
    /\ drain.yielded = << 64 >>
    /\ drain.op_count = 3

-----------------------------------------------------------------------------
(* Layer::grow applied to chosen layers *)

InitGrow ==
    /\ build \in Builds
    /\ BitSetInit
    /\ ConcIdle
    /\ RoundIdle
    /\ GrowInit

NextGrow == GrowOnce

SpecGrow == InitGrow /\ [][NextGrow]_vars

-----------------------------------------------------------------------------
(* C23: Layer grow(new) with new <= the current word count changes nothing; *)
(* with new > the current word count it leaves the layer with exactly new   *)
(* words (the recorded cap equals new and the assertion that the vector's   *)
(* length equals its capacity holds whatever the allocator provides), every *)
(* word that existed keeps its value and every added word is zero           *)
C23_LayerGrow ==
    gout # None =>
        /\ ~gout.panic
        /\ IF gnew <= glayer.cap
           THEN gout.layer = glayer
           ELSE /\ gout.layer.cap = gnew
                /\ Len(Layer_as_slice(gout.layer)) = gnew
                /\ \A i \in 1 .. glayer.cap :
                       Layer_as_slice(gout.layer)[i] = Layer_as_slice(glayer)[i]
                /\ \A i \in (glayer.cap + 1) .. gout.layer.cap :
                       Layer_as_slice(gout.layer)[i] = EmptyWord

====
